---------------------------- MODULE Spec2Model ----------------------------
(***************************************************************************)
(* The SIRDS generator of src/src/sirds.ts (separation, createSeededRandom, *)
(* findRoot, depthToSirds) as a state machine.  One call of depthToSirds   *)
(* is a sequence of steps: the call itself, the start of a row (link       *)
(* reset), one link-construction step per column, one colour step per      *)
(* column, and the return.  The caller owns the depth buffer and the       *)
(* output image and calls the generator repeatedly on the same buffers.    *)
(*                                                                         *)
(* Numbers.  All inputs are integers, so separation(ht) is the rational    *)
(* num/den with num = d*eyeSep and den = d+obsDist; the comparisons and    *)
(* floors the code takes of it are computed exactly on that rational (for  *)
(* integer inputs of this size the doubles of the code give the same       *)
(* comparisons and floors).  The 32-bit words of the generator are pairs   *)
(* <<hi, lo>> of 16-bit halves, and every operation is taken modulo 2^32.  *)
(***************************************************************************)
EXTENDS Integers, Sequences, FiniteSets

(***************************************************************************)
(* Bounds of the model.                                                    *)
(***************************************************************************)
MaxWidth == 5

MaxHeight == 2

(***************************************************************************)
(* Program constants.                                                      *)
(***************************************************************************)
BKDEPTH == 0

OPAQUE == 255

(***************************************************************************)
(* 32-bit words as <<hi, lo>>, both in 0..65535.                           *)
(***************************************************************************)
H16 == 256 * 256

RECURSIVE Xor16(_, _)
Xor16(a, b) ==
    IF a = 0 THEN b
    ELSE IF b = 0 THEN a
    ELSE (((a % 2) + (b % 2)) % 2) + 2 * Xor16(a \div 2, b \div 2)

RECURSIVE Or16(_, _)
Or16(a, b) ==
    IF a = 0 THEN b
    ELSE IF b = 0 THEN a
    ELSE (IF (a % 2) + (b % 2) > 0 THEN 1 ELSE 0) + 2 * Or16(a \div 2, b \div 2)

RECURSIVE Pow2(_)
Pow2(k) == IF k = 0 THEN 1 ELSE 2 * Pow2(k - 1)

\* (a * b) mod 2^16 for 16-bit a, b, without leaving 31 bits
MulLow16(a, b) ==
    ((a % 256) * b + (((a \div 256) * b) % 256) * 256) % H16

\* seed >>> 0 for a non-negative seed below 2^31
ToUint32(n) == << (n \div H16) % H16, n % H16 >>

Xor32(a, b) == << Xor16(a[1], b[1]), Xor16(a[2], b[2]) >>

\* t | c for a constant c below 2^16
OrLow32(t, c) == << t[1], Or16(t[2], c) >>

\* t >>> k for 0 < k < 16
Shr32(t, k) ==
    << t[1] \div Pow2(k),
       (t[1] % Pow2(k)) * Pow2(16 - k) + (t[2] \div Pow2(k)) >>

\* (a + b) mod 2^32
Add32(a, b) ==
    LET lo == a[2] + b[2]
    IN  << (a[1] + b[1] + (lo \div H16)) % H16, lo % H16 >>

\* Math.imul(a, b): the low 32 bits of the product
Imul32(a, b) ==
    LET p0 == (a[2] % 256) * b[2]
        p1 == (a[2] \div 256) * b[2]
        s  == p0 + (p1 % 256) * 256
        lo == s % H16
        carry == (s \div H16) + (p1 \div 256)
    IN  << (carry + MulLow16(a[1], b[2]) + MulLow16(a[2], b[1])) % H16, lo >>

\* 0x6d2b79f5
GOLDEN == << 27947, 31221 >>

\* createSeededRandom(seed): a new closure whose state is seed >>> 0; the state
\* of the closure of an earlier call (old) is not carried over
KeepStream(old, s) == old

CreateSeededRandom(old, s) == ToUint32(s)

\* state = (state + 0x6d2b79f5) >>> 0
NextState(st) == Add32(st, GOLDEN)

\* the 32-bit value random() divides by 2^32, from the advanced state
Mix(st) ==
    LET t1 == Imul32(Xor32(st, Shr32(st, 15)), OrLow32(st, 1))
        t2 == Xor32(t1, Add32(t1, Imul32(Xor32(t1, Shr32(t1, 7)), OrLow32(t1, 61))))
    IN  Xor32(t2, Shr32(t2, 14))

\* Math.floor(random() * 256) from the 32-bit value: its top byte
ScaleToByte(word) == word[1] \div 256

(***************************************************************************)
(* separation(ht, eyeSep, obsDist) as the rational <<num, den>>, den >= 0. *)
(* A denominator of 0 stands for the quotients of a division by zero:      *)
(* +Infinity (num > 0), -Infinity (num < 0) and NaN (num = 0).             *)
(***************************************************************************)
\* the value of a typed-array read outside the array; the samples are 0..255
Undefined == -1

\* n / m with the sign carried by the numerator
Quotient(n, m) == IF m < 0 THEN << -n, -m >> ELSE << n, m >>

SeparationTimes(ht, e, o) ==
    LET d == ht - BKDEPTH
    IN  IF d <= 0 THEN << 0, 1 >> ELSE << d * e, d * o >>

SeparationOffByOne(ht, e, o) ==
    LET d == ht - BKDEPTH + 1
    IN  IF d <= 0 THEN << 0, 1 >> ELSE << d * e, d + o >>

\* undefined - BKDEPTH is NaN, NaN <= 0 is false, and the quotient is NaN
Separation(ht, e, o) ==
    LET d == ht - BKDEPTH
    IN  IF ht = Undefined THEN << 0, 0 >>
        ELSE IF d <= 0 THEN << 0, 1 >>
        ELSE Quotient(d * e, d + o)

\* sep < 2: true of -Infinity, false of +Infinity and of NaN
SepBelow2(sep) == sep[1] < 2 * sep[2]

\* the result of Math.floor on an infinite or NaN argument, which fails every
\* comparison of the link condition that it reaches
NotAColumn == -1

\* Math.floor(x - sep * 0.5)
LeftX(col, sep) ==
    IF sep[2] = 0 THEN NotAColumn
    ELSE (2 * col * sep[2] - sep[1]) \div (2 * sep[2])

\* Math.floor(x + sep * 0.5)
RightXWholeSep(col, sep) == (col * sep[2] + sep[1]) \div sep[2]

RightX(col, sep) ==
    IF sep[2] = 0 THEN NotAColumn
    ELSE (2 * col * sep[2] + sep[1]) \div (2 * sep[2])

\* findRoot(link, i)
RECURSIVE FindRoot(_, _)
FindRoot(lk, i) == IF lk[i] = i THEN i ELSE FindRoot(lk, lk[i])

\* depth[rowOff + x] with rowOff = y * width
DepthAtFirstRow(dm, w, r, col) == dm[col]

DepthAtLastRow(dm, w, r, col) == dm[(Cardinality(DOMAIN dm) \div w - 1) * w + col]

DepthAt(dm, w, r, col) ==
    IF r * w + col \in DOMAIN dm THEN dm[r * w + col] ELSE Undefined

\* the condition under which a column creates a link
Links(w, leftX, rightX) == leftX >= 0 /\ rightX < w /\ leftX # rightX

\* the body of the link loop for column col: the link buffer after it
LinkColumnForward(lk, w, col, ht, e, o) ==
    LET sep == Separation(ht, e, o)
        leftX == LeftX(col, sep)
        rightX == RightX(col, sep)
    IN  IF SepBelow2(sep) THEN lk
        ELSE IF Links(w, leftX, rightX)
             THEN [lk EXCEPT ![leftX] = rightX]
             ELSE lk

LinkColumnClamp(lk, w, col, ht, e, o) ==
    LET sep == Separation(ht, e, o)
        leftX == IF LeftX(col, sep) < 0 THEN 0 ELSE LeftX(col, sep)
        rightX == IF RightX(col, sep) >= w THEN w - 1 ELSE RightX(col, sep)
    IN  IF SepBelow2(sep) THEN lk
        ELSE IF leftX # rightX
             THEN [lk EXCEPT ![rightX] = FindRoot(lk, leftX)]
             ELSE lk

LinkColumnNoFind(lk, w, col, ht, e, o) ==
    LET sep == Separation(ht, e, o)
        leftX == LeftX(col, sep)
        rightX == RightX(col, sep)
    IN  IF SepBelow2(sep) THEN lk
        ELSE IF Links(w, leftX, rightX)
             THEN [lk EXCEPT ![rightX] = leftX]
             ELSE lk

LinkColumn(lk, w, col, ht, e, o) ==
    LET sep == Separation(ht, e, o)
        leftX == LeftX(col, sep)
        rightX == RightX(col, sep)
    IN  IF SepBelow2(sep) THEN lk
        ELSE IF Links(w, leftX, rightX)
             THEN [lk EXCEPT ![rightX] = FindRoot(lk, leftX)]
             ELSE lk

\* a load from a typed array that is stored into a Uint8ClampedArray: an index
\* outside the array reads undefined, which is stored as 0
GetByte(d, i) == IF i \in DOMAIN d THEN d[i] ELSE 0

\* a store into a typed array: an index outside the array is ignored
SetByte(d, i, v) == IF i \in DOMAIN d THEN [d EXCEPT ![i] = v] ELSE d

\* the colour of a root: R = G = B = v, alpha 255
WriteGrayNoAlpha(d, i, v) == SetByte(SetByte(SetByte(d, i, v), i + 1, v), i + 2, v)

WriteGray(d, i, v) ==
    SetByte(SetByte(SetByte(SetByte(d, i, v), i + 1, v), i + 2, v), i + 3, OPAQUE)

\* the colour of a linked column: the R, G, B at src, alpha 255
CopyFromLeft(d, i, src) ==
    SetByte(SetByte(SetByte(SetByte(d, i, d[i - 4]), i + 1, d[i - 3]), i + 2, d[i - 2]),
            i + 3, OPAQUE)

CopyPixel(d, i, src) ==
    LET d1 == SetByte(d, i, GetByte(d, src))
        d2 == SetByte(d1, i + 1, GetByte(d1, src + 1))
        d3 == SetByte(d2, i + 2, GetByte(d2, src + 2))
    IN  SetByte(d3, i + 3, OPAQUE)

\* the body of the colour loop for column col of row r: the image, the stream's
\* state and the number of values drawn after it
ColorColumnDrawAlways(d, st, lk, w, r, col) ==
    LET i == (r * w + col) * 4
    IN  IF lk[col] = col
        THEN [data |-> WriteGray(d, i, ScaleToByte(Mix(NextState(st)))),
              state |-> NextState(st), draws |-> 1]
        ELSE [data |-> CopyPixel(d, i, (r * w + lk[col]) * 4),
              state |-> NextState(st), draws |-> 1]

ColorColumn(d, st, lk, w, r, col) ==
    LET i == (r * w + col) * 4
    IN  IF lk[col] = col
        THEN [data |-> WriteGray(d, i, ScaleToByte(Mix(NextState(st)))),
              state |-> NextState(st), draws |-> 1]
        ELSE [data |-> CopyPixel(d, i, (r * w + lk[col]) * 4),
              state |-> st, draws |-> 0]

(***************************************************************************)
(* The inputs.  A depth map is a function on 0..width*height-1, row-major. *)
(***************************************************************************)
Seeds == {0, 7}

\* <<eyeSep, obsDist>>
Params == { <<4, 1>>, <<4, 255>> }

NEAR == 255

Cols(w) == 0 .. (w - 1)

Background(w) == [c \in Cols(w) |-> BKDEPTH]

AllNear(w) == [c \in Cols(w) |-> NEAR]

Patch(w, lo, hi) == [c \in Cols(w) |-> IF c \in lo .. hi THEN NEAR ELSE BKDEPTH]

Mixed(w) == [c \in Cols(w) |-> IF c % 2 = 0 THEN 1 ELSE NEAR]

\* the rows of the two concrete scenarios (widths 40 and 10)
ScenarioRows(w) ==
    IF w = 40 THEN { Patch(w, 18, 22) }
    ELSE IF w = 10 THEN { Patch(w, 5, 5) }
    ELSE {}

\* the rows the caller rasterises between calls
Rows(w) ==
    { Background(w), AllNear(w), Mixed(w) } \cup ScenarioRows(w)

\* every row of far and near samples
BinaryRows(w) == [Cols(w) -> {BKDEPTH, NEAR}]

\* the depth map whose rows are rs[0], rs[1], ...
MapOf(w, h, rs) == [i \in 0 .. (w * h - 1) |-> rs[i \div w][i % w]]

RowOf(dm, w, r) == [c \in Cols(w) |-> dm[r * w + c]]

WithRow(dm, w, r, row) ==
    [i \in DOMAIN dm |-> IF i \div w = r THEN row[i % w] ELSE dm[i]]

DepthMaps(w, h) ==
    { MapOf(w, h, rs) : rs \in [0 .. (h - 1) -> Rows(w)] }
    \cup (IF h = 1 THEN { MapOf(w, 1, [r \in {0} |-> row]) : row \in BinaryRows(w) }
          ELSE {})

\* the depth buffer at the next call: unchanged, or one row rasterised anew
Rerasterised(dm, w, h) ==
    {dm} \cup { WithRow(dm, w, r, row) : r \in 0 .. (h - 1), row \in Rows(w) }

(***************************************************************************)
(* The Tetris board and pieces of tetris.ts.                               *)
(***************************************************************************)
COLS == 10
ROWS == 14
LINES_PER_LEVEL == 10

PieceTypes == 0 .. 6

\* (col, row) offsets from the pivot; NRS_OFFSETS[k + 1] is entry k of the code
NRS_OFFSETS ==
    << << <<-1, 0>>, <<0, 0>>, <<1, 0>>, <<0, -1>> >>,
       << <<0, -1>>, <<0, 0>>, <<1, 0>>, <<0, 1>> >>,
       << <<-1, 0>>, <<0, 0>>, <<1, 0>>, <<0, 1>> >>,
       << <<0, -1>>, <<-1, 0>>, <<0, 0>>, <<0, 1>> >>,
       << <<0, -1>>, <<0, 0>>, <<-1, 1>>, <<0, 1>> >>,
       << <<-1, -1>>, <<-1, 0>>, <<0, 0>>, <<1, 0>> >>,
       << <<0, -1>>, <<1, -1>>, <<0, 0>>, <<0, 1>> >>,
       << <<-1, 0>>, <<0, 0>>, <<1, 0>>, <<1, 1>> >>,
       << <<-1, 0>>, <<0, 0>>, <<0, 1>>, <<1, 1>> >>,
       << <<1, -1>>, <<0, 0>>, <<1, 0>>, <<0, 1>> >>,
       << <<-1, 0>>, <<0, 0>>, <<-1, 1>>, <<0, 1>> >>,
       << <<0, 0>>, <<1, 0>>, <<-1, 1>>, <<0, 1>> >>,
       << <<0, -1>>, <<0, 0>>, <<1, 0>>, <<1, 1>> >>,
       << <<0, -1>>, <<0, 0>>, <<0, 1>>, <<1, 1>> >>,
       << <<-1, -1>>, <<0, -1>>, <<0, 0>>, <<0, 1>> >>,
       << <<0, -1>>, <<-1, 0>>, <<0, 0>>, <<1, 0>> >>,
       << <<-1, 0>>, <<0, 0>>, <<1, 0>>, <<-1, 1>> >>,
       << <<0, -2>>, <<0, -1>>, <<0, 0>>, <<0, 1>> >>,
       << <<-2, 0>>, <<-1, 0>>, <<0, 0>>, <<1, 0>> >> >>

nrsIndex(type, rotation) ==
    CASE type = 0 -> (IF rotation = 0 THEN 17 ELSE 18)
      [] type = 1 -> 10
      [] type = 2 -> rotation
      [] type = 3 -> (IF rotation = 0 THEN 11 ELSE 12)
      [] type = 4 -> (IF rotation = 0 THEN 8 ELSE 9)
      [] type = 5 -> 4 + rotation
      [] type = 6 -> 13 + rotation
      [] OTHER -> 0

\* (x, y) of the pivot per piece type; SPAWN_PIVOT[t + 1] is entry t of the code
SPAWN_PIVOT ==
    << <<4, 2>>, <<4, 0>>, <<4, 1>>, <<4, 0>>, <<4, 0>>, <<4, 1>>, <<4, 1>> >>

\* the four (row, col) offsets of a shape
getShapeCells(type, rotation) ==
    LET offsets == NRS_OFFSETS[nrsIndex(type, rotation) + 1]
    IN  [k \in 1 .. 4 |-> << offsets[k][2], offsets[k][1] >>]

createPiece(type) ==
    [type |-> type, rotation |-> 0,
     x |-> SPAWN_PIVOT[type + 1][1], y |-> SPAWN_PIVOT[type + 1][2]]

rotatePieceAllFour(p) ==
    IF p.type = 1 THEN p
    ELSE [p EXCEPT !.rotation = (p.rotation + 1) % 4]

rotatePiece(p) ==
    IF p.type = 1 THEN p
    ELSE IF p.type = 0 THEN [p EXCEPT !.rotation = (p.rotation + 1) % 2]
    ELSE [p EXCEPT !.rotation = (p.rotation + 1) % 4]

\* the four (row, col) board cells of a piece
pieceCells(p) ==
    LET cells == getShapeCells(p.type, p.rotation)
    IN  [k \in 1 .. 4 |-> << p.y + cells[k][1], p.x + cells[k][2] >>]

OnBoard(cell) ==
    cell[1] >= 0 /\ cell[1] < ROWS /\ cell[2] >= 0 /\ cell[2] < COLS

collides(g, p) ==
    \E k \in 1 .. 4 :
        LET cell == pieceCells(p)[k]
        IN  ~OnBoard(cell) \/ g[cell[1]][cell[2]] # 0

\* the grid after the cells of p that are on the board are set to value
mergePiece(g, p, value) ==
    LET cells == { pieceCells(p)[k] : k \in 1 .. 4 }
    IN  [r \in 0 .. (ROWS - 1) |->
            [c \in 0 .. (COLS - 1) |->
                IF << r, c >> \in cells THEN value ELSE g[r][c]]]

EmptyRow == [c \in 0 .. (COLS - 1) |-> 0]

emptyGrid == [r \in 0 .. (ROWS - 1) |-> EmptyRow]

FullRow(row) == \A c \in 0 .. (COLS - 1) : row[c] # 0

\* grid.splice(row, 1); grid.unshift(an empty row)
SpliceUnshift(g, row) ==
    [r \in 0 .. (ROWS - 1) |->
        IF r = 0 THEN EmptyRow ELSE IF r <= row THEN g[r - 1] ELSE g[r]]

\* the loop of clearLines from index row downwards: the grid and the count
RECURSIVE ClearFromNoRecheck(_, _, _)
ClearFromNoRecheck(g, row, cleared) ==
    IF row < 0 THEN [grid |-> g, cleared |-> cleared]
    ELSE IF FullRow(g[row])
         THEN ClearFromNoRecheck(SpliceUnshift(g, row), row - 1, cleared + 1)
    ELSE ClearFromNoRecheck(g, row - 1, cleared)

RECURSIVE ClearFrom(_, _, _)
ClearFrom(g, row, cleared) ==
    IF row < 0 THEN [grid |-> g, cleared |-> cleared]
    ELSE IF FullRow(g[row]) THEN ClearFrom(SpliceUnshift(g, row), row, cleared + 1)
    ELSE ClearFrom(g, row - 1, cleared)

clearLines(g) == ClearFrom(g, ROWS - 1, 0)

VARIABLES
    width, height,      \* dimensions of the depth buffer and the image
    eyeSep, obsDist,    \* the viewing parameters
    seed,               \* the seed the caller passes
    depth,              \* the caller's depth buffer
    data,               \* out.data, the RGBA bytes of the caller's image
    link,               \* the link buffer
    state,              \* the state of the random stream's closure
    x, y,               \* the loop counters
    pc,                 \* "idle", "row", "link", "color", "done" or "thrown"
    written,            \* the indices of data stored to in this call
    drawn,              \* the number of calls of random() in this call
    forest,             \* per row, the link buffer when its construction ended
    prev,               \* depth map, output and forests of the call before this one
    sepArg, sepRes,     \* argument and result of the last call of separation alone
    grid,               \* the locked cells: 0, or the type of the piece plus 1
    currentPiece,       \* << >> for null, or << piece >>
    nextPieceType,
    level, score, lines,
    gameOver, gameStarted,
    moves,              \* the handlers invoked since the game started
    fnArg, fnRes,       \* argument and result of a function of tetris.ts called alone
    turns,              \* the number of successive calls of it, modulo 4
    input,              \* the input state of player 1 that gameTick keeps
    tick                \* what the last game tick saw and which handlers it invoked

game == << grid, currentPiece, nextPieceType, level, score, lines, gameOver,
           gameStarted, moves >>

sirds == << width, height, eyeSep, obsDist, seed, depth, data, link, state,
            x, y, pc, written, drawn, forest, prev, sepArg, sepRes >>

probe == << fnArg, fnRes, turns >>

player1 == << input, tick >>

vars == << sirds, game, probe, player1 >>

fixed == << width, height, eyeSep, obsDist, seed, sepArg, sepRes, game, probe,
            player1 >>

Zeros(n) == [i \in 0 .. (n - 1) |-> 0]

\* resetGame(), with t the type drawn for the next piece
GameReset(t) ==
    /\ grid = emptyGrid
    /\ currentPiece = << >>
    /\ nextPieceType = t
    /\ level = 1 /\ score = 0 /\ lines = 0
    /\ gameOver = FALSE /\ gameStarted = FALSE
    /\ moves = 0

\* before the first call, with the arguments the caller will pass: the depth
\* buffer dm and an image of n bytes
InitSirds(w, h, e, o, dm, n) ==
    /\ width = w /\ height = h /\ eyeSep = e /\ obsDist = o
    /\ depth = dm
    /\ seed \in Seeds
    /\ data = Zeros(n)
    /\ link = Zeros(w)
    /\ state = << 0, 0 >>
    /\ x = 0 /\ y = 0 /\ pc = "idle"
    /\ written = {} /\ drawn = 0
    /\ forest = [r \in 0 .. (h - 1) |-> Zeros(w)]
    /\ prev = [valid |-> FALSE, depth |-> dm, out |-> Zeros(n),
               forest |-> [r \in 0 .. (h - 1) |-> Zeros(w)]]

\* the input state after resetGame(): the press and move times are assigned
\* by the first tick that sees the direction
InputReset ==
    [leftHeld |-> FALSE, rightHeld |-> FALSE, downHeld |-> FALSE,
     leftPressTime |-> 0, rightPressTime |-> 0, downPressTime |-> 0,
     lastLeftMove |-> 0, lastRightMove |-> 0, lastDownMove |-> 0,
     prevUp |-> FALSE, prevA |-> FALSE, lastDropTime |-> 0]

NoButtons ==
    [left |-> FALSE, right |-> FALSE, down |-> FALSE, up |-> FALSE, a |-> FALSE]

NoHandlers ==
    [left |-> FALSE, right |-> FALSE, down |-> FALSE, rotate |-> FALSE,
     hardDrop |-> FALSE, gravity |-> FALSE]

NoTimes == [left |-> 0, right |-> 0, down |-> 0]

\* before the first game tick.  now: p.millis() of the last frame that started
\* a game or ran a tick; n: the ticks taken; inGame: those of the current game;
\* buttons, invoked: what the last tick saw and which handlers it called;
\* held: when the hold of a direction the last tick saw began, over
\* consecutive ticks; heldInGame: the same over ticks of the current game;
\* last: when the handler of a direction was last called
TickNone ==
    [now |-> 0, n |-> 0, inGame |-> 0, buttons |-> NoButtons,
     invoked |-> NoHandlers, held |-> NoTimes, heldInGame |-> NoTimes,
     last |-> NoTimes]

\* nothing called alone yet, no game tick yet
Resting ==
    /\ fnArg = 0 /\ fnRes = 0 /\ turns = 0
    /\ input = InputReset
    /\ tick = TickNone

InitArgs(w, h, e, o, dm, n) ==
    InitSirds(w, h, e, o, dm, n) /\ GameReset(0) /\ Resting

\* after construction: new Uint8Array(w*h) rasterised once, new ImageData(w, h)
InitWith(w, h, e, o, dm) == InitArgs(w, h, e, o, dm, 4 * w * h)

InitBounded ==
    \E w \in 1 .. MaxWidth, h \in 1 .. MaxHeight, p \in Params :
        \E dm \in DepthMaps(w, h) : InitWith(w, h, p[1], p[2], dm)

\* the two concrete scenarios: eyeSeparation 80, observerDistance 400, one row
InitScenario ==
    \E w \in {10, 40} :
        \E row \in ScenarioRows(w) :
            InitWith(w, 1, 80, 400, MapOf(w, 1, [r \in {0} |-> row]))

Init ==
    /\ InitBounded \/ InitScenario
    /\ sepArg = 0
    /\ sepRes = << 0, 1 >>

\* depthToSirds(depth, width, height, out, seed, eyeSep, obsDist): lines 53-55;
\* new Int32Array(width) throws a RangeError when width is negative, before
\* the stream is created
Call ==
    /\ pc \in {"idle", "done"}
    /\ depth' \in Rerasterised(depth, width, height)
    /\ IF width < 0
       THEN /\ pc' = "thrown"
            /\ UNCHANGED << state, link >>
       ELSE /\ pc' = "row"
            /\ state' = CreateSeededRandom(state, seed)
            /\ link' = Zeros(width)
    /\ y' = 0
    /\ written' = {}
    /\ drawn' = 0
    /\ forest' = [r \in 0 .. (height - 1) |-> Zeros(width)]
    /\ prev' = [valid |-> (pc = "done"), depth |-> depth, out |-> data,
                forest |-> forest]
    /\ UNCHANGED << fixed, data, x >>

\* the head of the row loop with y < height: the link buffer is reset
RowStartResetOnce ==
    /\ pc = "row"
    /\ y < height
    /\ link' = IF y = 0 THEN [c \in Cols(width) |-> c] ELSE link
    /\ x' = 0
    /\ pc' = "link"
    /\ UNCHANGED << fixed, depth, data, state, y, written, drawn,
                    forest, prev >>

RowStart ==
    /\ pc = "row"
    /\ y < height
    /\ link' = [c \in Cols(width) |-> c]
    /\ x' = 0
    /\ pc' = "link"
    /\ UNCHANGED << fixed, depth, data, state, y, written, drawn,
                    forest, prev >>

\* one iteration of the link loop
LinkStep ==
    /\ pc = "link"
    /\ x < width
    /\ link' = LinkColumn(link, width, x, DepthAt(depth, width, y, x), eyeSep, obsDist)
    /\ x' = x + 1
    /\ UNCHANGED << fixed, depth, data, state, y, pc, written, drawn,
                    forest, prev >>

\* the link loop ends
LinkEnd ==
    /\ pc = "link"
    /\ x >= width
    /\ forest' = [forest EXCEPT ![y] = link]
    /\ x' = 0
    /\ pc' = "color"
    /\ UNCHANGED << fixed, depth, data, link, state, y, written, drawn,
                    prev >>

\* one iteration of the colour loop
ColorStep ==
    /\ pc = "color"
    /\ x < width
    /\ LET after == ColorColumn(data, state, link, width, y, x)
           i == (y * width + x) * 4
       IN  /\ data' = after.data
           /\ state' = after.state
           /\ drawn' = drawn + after.draws
           /\ written' = written \cup ((i .. (i + 3)) \cap DOMAIN data)
    /\ x' = x + 1
    /\ UNCHANGED << fixed, depth, link, y, pc, forest, prev >>

\* the colour loop ends: the next row
ColorEnd ==
    /\ pc = "color"
    /\ x >= width
    /\ y' = y + 1
    /\ pc' = "row"
    /\ UNCHANGED << fixed, depth, data, link, state, x, written, drawn,
                    forest, prev >>

\* the row loop ends: depthToSirds returns
Return ==
    /\ pc = "row"
    /\ y >= height
    /\ pc' = "done"
    /\ UNCHANGED << fixed, depth, data, link, state, x, y, written,
                    drawn, forest, prev >>

Next ==
    \/ Call
    \/ RowStart
    \/ LinkStep
    \/ LinkEnd
    \/ ColorStep
    \/ ColorEnd
    \/ Return

Spec == Init /\ [][Next]_vars

(***************************************************************************)
(* depthToSirds as an exported function: callers other than the sketch may *)
(* pass any numbers and any buffers.  One specification per kind of        *)
(* argument the function does not check; each also holds sound arguments.  *)
(***************************************************************************)
\* depth buffers of n samples
DepthBuffers(n) ==
    { [i \in 0 .. (n - 1) |-> BKDEPTH],
      [i \in 0 .. (n - 1) |-> NEAR],
      [i \in 0 .. (n - 1) |-> IF i % 2 = 0 THEN 1 ELSE NEAR] }

\* eyeSep and obsDist of either sign
AnyParams ==
    { <<4, 1>>, <<0, 1>>, <<-4, 1>>, <<4, 0>>, <<4, -1>>, <<0, -1>>, <<-4, -3>> }

InitAnyParams ==
    /\ \E w \in 1 .. 3, h \in 1 .. 2, p \in AnyParams :
          \E dm \in DepthBuffers(w * h) : InitWith(w, h, p[1], p[2], dm)
    /\ sepArg = 0
    /\ sepRes = << 0, 1 >>

SpecAnyParams == InitAnyParams /\ [][Next]_vars

\* buffers one sample or one pixel shorter or longer than the dimensions say
InitAnyBuffers ==
    /\ \E w \in 1 .. 3, h \in 1 .. 2, p \in Params :
          \E dl \in {w * h - 1, w * h, w * h + 1},
             ol \in {4 * w * h - 4, 4 * w * h, 4 * w * h + 4} :
              \E dm \in DepthBuffers(dl) : InitArgs(w, h, p[1], p[2], dm, ol)
    /\ sepArg = 0
    /\ sepRes = << 0, 1 >>

SpecAnyBuffers == InitAnyBuffers /\ [][Next]_vars

\* dimensions of either sign, with buffers of width * height samples and pixels
InitAnyDimensions ==
    /\ \E w \in -1 .. 2, h \in -1 .. 2, p \in Params :
          \E dm \in DepthBuffers(w * h) : InitWith(w, h, p[1], p[2], dm)
    /\ sepArg = 0
    /\ sepRes = << 0, 1 >>

SpecAnyDimensions == InitAnyDimensions /\ [][Next]_vars

(***************************************************************************)
(* separation called on its own, on every depth sample a Uint8Array holds. *)
(***************************************************************************)
Samples == 0 .. 255

\* <<eyeSep, obsDist>>: the defaults, the ends of the tuning range, the
\* scenarios' values and the small values of Params
SepParams ==
    { <<82, 520>>, <<30, 800>>, <<150, 200>>, <<80, 400>>, <<4, 1>>, <<4, 255>> }

SepInit ==
    /\ \E p \in SepParams : InitWith(1, 1, p[1], p[2], Zeros(1))
    /\ sepArg = BKDEPTH
    /\ sepRes = Separation(BKDEPTH, eyeSep, obsDist)

SepCall ==
    /\ \E ht \in Samples :
          /\ sepArg' = ht
          /\ sepRes' = Separation(ht, eyeSep, obsDist)
    /\ UNCHANGED << width, height, eyeSep, obsDist, seed, depth, data, link,
                    state, x, y, pc, written, drawn, forest, prev, game, probe,
                    player1 >>

SepNext == SepCall

SpecSeparation == SepInit /\ [][SepNext]_vars

(***************************************************************************)
(* The game of sketch.ts: the handlers that gameTick and draw invoke, one  *)
(* per step, on the game state g; rnd is Math.floor(Math.random() * 7).    *)
(***************************************************************************)
MaxMoves == 4

HasPiece(g) == g.currentPiece # << >>

PieceOf(g) == g.currentPiece[1]

spawnPiece(g, rnd) ==
    LET piece == [createPiece(g.nextPieceType) EXCEPT !.x = 3, !.y = 0]
    IN  IF collides(g.grid, piece)
        THEN [g EXCEPT !.nextPieceType = rnd, !.gameOver = TRUE]
        ELSE [g EXCEPT !.nextPieceType = rnd, !.currentPiece = << piece >>]

lockPieceLevelFirst(g, rnd) ==
    IF ~HasPiece(g) THEN g
    ELSE LET merged == mergePiece(g.grid, PieceOf(g), PieceOf(g).type + 1)
             after == clearLines(merged)
             newLevel == 1 + (g.lines + after.cleared) \div LINES_PER_LEVEL
             scored == IF after.cleared > 0
                       THEN [g EXCEPT !.score = g.score + after.cleared * 100 * newLevel,
                                      !.lines = g.lines + after.cleared,
                                      !.level = newLevel]
                       ELSE g
         IN  spawnPiece([scored EXCEPT !.grid = after.grid, !.currentPiece = << >>],
                        rnd)

lockPiece(g, rnd) ==
    IF ~HasPiece(g) THEN g
    ELSE LET merged == mergePiece(g.grid, PieceOf(g), PieceOf(g).type + 1)
             after == clearLines(merged)
             scored == IF after.cleared > 0
                       THEN [g EXCEPT !.score = g.score + after.cleared * 100 * g.level,
                                      !.lines = g.lines + after.cleared,
                                      !.level = 1 + (g.lines + after.cleared)
                                                    \div LINES_PER_LEVEL]
                       ELSE g
         IN  spawnPiece([scored EXCEPT !.grid = after.grid, !.currentPiece = << >>],
                        rnd)

moveLeftUnchecked(g) ==
    IF ~HasPiece(g) \/ g.gameOver THEN g
    ELSE [g EXCEPT !.currentPiece = << [PieceOf(g) EXCEPT !.x = @ - 1] >>]

moveLeft(g) ==
    IF ~HasPiece(g) \/ g.gameOver THEN g
    ELSE LET next == [PieceOf(g) EXCEPT !.x = @ - 1]
         IN  IF ~collides(g.grid, next) THEN [g EXCEPT !.currentPiece = << next >>]
             ELSE g

moveRight(g) ==
    IF ~HasPiece(g) \/ g.gameOver THEN g
    ELSE LET next == [PieceOf(g) EXCEPT !.x = @ + 1]
         IN  IF ~collides(g.grid, next) THEN [g EXCEPT !.currentPiece = << next >>]
             ELSE g

rotate(g) ==
    IF ~HasPiece(g) \/ g.gameOver THEN g
    ELSE LET next == rotatePiece(PieceOf(g))
         IN  IF ~collides(g.grid, next)
             THEN [g EXCEPT !.currentPiece =
                               << [PieceOf(g) EXCEPT !.rotation = next.rotation] >>]
             ELSE g

softDrop(g, rnd) ==
    IF ~HasPiece(g) \/ g.gameOver THEN g
    ELSE LET next == [PieceOf(g) EXCEPT !.y = @ + 1]
         IN  IF collides(g.grid, next) THEN lockPiece(g, rnd)
             ELSE [g EXCEPT !.currentPiece = << next >>, !.score = @ + 1]

\* the loop of hardDrop
RECURSIVE DropToFloor(_)
DropToFloor(g) ==
    LET next == [PieceOf(g) EXCEPT !.y = @ + 1]
    IN  IF collides(g.grid, next) THEN g
        ELSE DropToFloor([g EXCEPT !.currentPiece = << next >>, !.score = @ + 2])

hardDrop(g, rnd) ==
    IF ~HasPiece(g) \/ g.gameOver THEN g
    ELSE lockPiece(DropToFloor(g), rnd)

\* the game state as the record the handlers work on
Game ==
    [grid |-> grid, currentPiece |-> currentPiece, nextPieceType |-> nextPieceType,
     level |-> level, score |-> score, lines |-> lines, gameOver |-> gameOver]

Becomes(g) ==
    /\ grid' = g.grid
    /\ currentPiece' = g.currentPiece
    /\ nextPieceType' = g.nextPieceType
    /\ level' = g.level /\ score' = g.score /\ lines' = g.lines
    /\ gameOver' = g.gameOver

GameInit ==
    /\ InitSirds(1, 1, 82, 520, Zeros(1), 4)
    /\ seed = 0
    /\ sepArg = 0
    /\ sepRes = << 0, 1 >>
    /\ \E t \in PieceTypes : GameReset(t)
    /\ Resting

\* draw before the game has started, with 1P START pressed
Start ==
    /\ ~gameStarted
    /\ gameStarted' = TRUE
    /\ \E rnd \in PieceTypes : Becomes(spawnPiece(Game, rnd))
    /\ UNCHANGED << sirds, probe, player1, moves >>

\* draw after the game is over, with 1P START pressed: resetGame, then a spawn
Restart ==
    /\ gameStarted /\ gameOver
    /\ gameStarted' = TRUE
    /\ moves' = 0
    /\ \E t \in PieceTypes, rnd \in PieceTypes :
          Becomes(spawnPiece([grid |-> emptyGrid, currentPiece |-> << >>,
                              nextPieceType |-> t, level |-> 1, score |-> 0,
                              lines |-> 0, gameOver |-> FALSE], rnd))
    /\ UNCHANGED << sirds, probe, player1 >>

\* gameTick runs only in a started game that is not over
Ticking == gameStarted /\ ~gameOver /\ moves < MaxMoves

\* softDrop locks the piece: the piece cannot descend
Lands(g) ==
    /\ HasPiece(g) /\ ~g.gameOver
    /\ collides(g.grid, [PieceOf(g) EXCEPT !.y = @ + 1])

\* the values Math.random() can yield in a handler: it is called only when a
\* piece spawns
Draws(spawns) == IF spawns THEN PieceTypes ELSE {0}

MoveLeft ==
    /\ Ticking
    /\ Becomes(moveLeft(Game))
    /\ moves' = moves + 1
    /\ UNCHANGED << sirds, probe, player1, gameStarted >>

MoveRight ==
    /\ Ticking
    /\ Becomes(moveRight(Game))
    /\ moves' = moves + 1
    /\ UNCHANGED << sirds, probe, player1, gameStarted >>

Rotate ==
    /\ Ticking
    /\ Becomes(rotate(Game))
    /\ moves' = moves + 1
    /\ UNCHANGED << sirds, probe, player1, gameStarted >>

SoftDrop ==
    /\ Ticking
    /\ \E rnd \in Draws(Lands(Game)) : Becomes(softDrop(Game, rnd))
    /\ moves' = moves + 1
    /\ UNCHANGED << sirds, probe, player1, gameStarted >>

HardDrop ==
    /\ Ticking
    /\ \E rnd \in Draws(HasPiece(Game)) : Becomes(hardDrop(Game, rnd))
    /\ moves' = moves + 1
    /\ UNCHANGED << sirds, probe, player1, gameStarted >>

\* the gravity step of gameTick: softDrop once the drop interval has elapsed
Gravity ==
    /\ Ticking
    /\ \E rnd \in Draws(Lands(Game)) : Becomes(softDrop(Game, rnd))
    /\ moves' = moves + 1
    /\ UNCHANGED << sirds, probe, player1, gameStarted >>

GameNext ==
    \/ Start
    \/ Restart
    \/ MoveLeft
    \/ MoveRight
    \/ Rotate
    \/ SoftDrop
    \/ HardDrop
    \/ Gravity

SpecGame == GameInit /\ [][GameNext]_vars

(***************************************************************************)
(* rotatePiece called on its own, again and again on its own result.       *)
(***************************************************************************)
\* the sirds variables and the game at rest
InitIdle ==
    /\ InitSirds(1, 1, 82, 520, Zeros(1), 4)
    /\ seed = 0
    /\ sepArg = 0
    /\ sepRes = << 0, 1 >>
    /\ GameReset(0)

\* the rotations rotatePiece gives a piece created with rotation 0
Rotations(type) ==
    IF type = 1 THEN {0} ELSE IF type = 0 THEN {0, 1} ELSE 0 .. 3

Pieces ==
    { [type |-> t, rotation |-> r, x |-> px, y |-> py] :
        t \in PieceTypes, r \in 0 .. 3, px \in {0, 3, 9}, py \in {0, 5, 13} }

RotateInit ==
    /\ InitIdle
    /\ input = InputReset /\ tick = TickNone
    /\ \E p \in { q \in Pieces : q.rotation \in Rotations(q.type) } :
          fnArg = p /\ fnRes = p
    /\ turns = 0

RotateCall ==
    /\ fnRes' = rotatePiece(fnRes)
    /\ turns' = (turns + 1) % 4
    /\ UNCHANGED << sirds, game, player1, fnArg >>

RotateNext == RotateCall

SpecRotate == RotateInit /\ [][RotateNext]_vars

(***************************************************************************)
(* clearLines called on its own, on grids with full, empty and partly      *)
(* filled rows at the top and at the bottom.                               *)
(***************************************************************************)
\* a partly filled row, different for every row index
MarkedRow(r) == [c \in 0 .. (COLS - 1) |-> IF c = r % COLS THEN 1 + (r % 7) ELSE 0]

FilledRow(v) == [c \in 0 .. (COLS - 1) |-> v]

\* the rows that vary from grid to grid
VariedRows == {0, 1, 2, 11, 12, 13}

RowChoices(r) == { MarkedRow(r), EmptyRow, FilledRow(1), FilledRow(2) }

SampleGrids ==
    { [r \in 0 .. (ROWS - 1) |-> IF r \in VariedRows THEN ch[r] ELSE MarkedRow(r)] :
        ch \in { f \in [VariedRows -> UNION { RowChoices(r) : r \in VariedRows }] :
                   \A r \in VariedRows : f[r] \in RowChoices(r) } }

ClearInit ==
    /\ InitIdle
    /\ input = InputReset /\ tick = TickNone
    /\ fnArg \in SampleGrids
    /\ fnRes = [grid |-> fnArg, cleared |-> 0]
    /\ turns = 0

ClearCall ==
    /\ turns = 0
    /\ fnRes' = clearLines(fnArg)
    /\ turns' = 1
    /\ UNCHANGED << sirds, game, player1, fnArg >>

ClearNext == ClearCall

SpecClearLines == ClearInit /\ [][ClearNext]_vars

(***************************************************************************)
(* The game from positions later in play.  Each position is the result of  *)
(* the handlers themselves, applied to a started game in which every piece *)
(* drawn is an O; from there the handlers act as in SpecGame.              *)
(***************************************************************************)
\* one handler, by its initial: Left, Right, Hard drop, soft Drop, Turn
Handle(g, h) ==
    CASE h = "L" -> moveLeft(g)
      [] h = "R" -> moveRight(g)
      [] h = "H" -> hardDrop(g, 1)
      [] h = "D" -> softDrop(g, 1)
      [] h = "T" -> rotate(g)

\* the game after the handlers of a script, in order; a handler that changes
\* neither the grid nor the piece has returned early
Step(g, h) ==
    LET after == Handle(g, h)
    IN  IF after.grid = g.grid /\ after.currentPiece = g.currentPiece
        THEN g ELSE after

RECURSIVE Replay(_, _)
Replay(g, script) ==
    IF Len(script) = 0 THEN g
    ELSE IF Len(script) = 1 THEN Step(g, script[1])
         ELSE LET half == Len(script) \div 2
                  midway == Replay(g, SubSeq(script, 1, half))
              IN  IF midway.gameOver THEN midway
                  ELSE Replay(midway, SubSeq(script, half + 1, Len(script)))

RECURSIVE Times(_, _)
Times(script, k) == IF k = 0 THEN << >> ELSE script \o Times(script, k - 1)

\* a started game whose first and second piece are O
StartedGame ==
    spawnPiece([grid |-> emptyGrid, currentPiece |-> << >>, nextPieceType |-> 1,
                level |-> 1, score |-> 0, lines |-> 0, gameOver |-> FALSE], 1)

\* four O pieces side by side on the floor, columns 0..7
FourSquares ==
    << "L", "L", "H", "H", "R", "R", "H", "R", "R", "R", "R", "H" >>

\* the fifth O moved above columns 8 and 9 and lowered to two rows above
\* the floor
OverTheGap == Times(<< "R" >>, 6) \o Times(<< "D" >>, 10)

\* five O pieces that fill and clear two rows
DoubleClear == FourSquares \o OverTheGap \o << "H" >>

\* six O pieces on top of each other in columns 2 and 3, rows 2..13
Tower == Times(<< "H" >>, 6)

Positions ==
    { Replay(StartedGame, Times(DoubleClear, k) \o FourSquares \o OverTheGap) :
        k \in {0, 4, 5} }
    \cup { Replay(StartedGame, Tower) }

PlayInit ==
    /\ InitSirds(1, 1, 82, 520, Zeros(1), 4)
    /\ seed = 0
    /\ sepArg = 0
    /\ sepRes = << 0, 1 >>
    /\ Resting
    /\ \E g \in Positions :
          /\ grid = g.grid /\ currentPiece = g.currentPiece
          /\ nextPieceType = g.nextPieceType
          /\ level = g.level /\ score = g.score /\ lines = g.lines
          /\ gameOver = g.gameOver
    /\ gameStarted = TRUE
    /\ moves = 0

PlayNext == MoveLeft \/ MoveRight \/ Rotate \/ SoftDrop \/ HardDrop \/ Gravity

SpecPlay == PlayInit /\ [][PlayNext]_vars

(***************************************************************************)
(* Player 2 tunes the stereogram: the first block of draw, once a frame,   *)
(* between the depthToSirds calls that gameTick makes with eyeSep and      *)
(* obsDist as the viewing parameters.                                      *)
(***************************************************************************)
Max(a, b) == IF a >= b THEN a ELSE b

Min(a, b) == IF a <= b THEN a ELSE b

TunedNoFloor(e, o, left, right, up, down) ==
    LET e1 == IF left THEN e - 2 ELSE e
        e2 == IF right THEN Min(150, e1 + 2) ELSE e1
        o1 == IF up THEN Min(800, o + 10) ELSE o
        o2 == IF down THEN Max(200, o1 - 10) ELSE o1
    IN  << e2, o2 >>

\* the four statements on the stick of player 2, in the order of the code
Tuned(e, o, left, right, up, down) ==
    LET e1 == IF left THEN Max(30, e - 2) ELSE e
        e2 == IF right THEN Min(150, e1 + 2) ELSE e1
        o1 == IF up THEN Min(800, o + 10) ELSE o
        o2 == IF down THEN Max(200, o1 - 10) ELSE o1
    IN  << e2, o2 >>

\* a frame of draw outside a depthToSirds call
Tune ==
    /\ pc \in {"idle", "done"}
    /\ \E left, right, up, down \in BOOLEAN :
          /\ eyeSep' = Tuned(eyeSep, obsDist, left, right, up, down)[1]
          /\ obsDist' = Tuned(eyeSep, obsDist, left, right, up, down)[2]
    /\ UNCHANGED << width, height, seed, depth, data, link, state, x, y, pc,
                    written, drawn, forest, prev, sepArg, sepRes, game, probe,
                    player1 >>

TuneNext == Tune \/ Next

TuneInit ==
    /\ InitSirds(1, 1, 82, 520, Zeros(1), 4)
    /\ seed = 0
    /\ sepArg = 0
    /\ sepRes = << 0, 1 >>
    /\ GameReset(0)
    /\ Resting

SpecTuning == TuneInit /\ [][TuneNext]_vars

(***************************************************************************)
(* Player 1 at the controls: gameTick as a whole, with the buttons it sees *)
(* and the time it reads; draw starting and restarting the game.  Times    *)
(* are milliseconds of p.millis().                                         *)
(***************************************************************************)
MaxTicks == 4

DAS_MS == 267

ARR_MS == 100

SOFT_DROP_ARR_MS == 50

DROP_INTERVAL_MS == 800

\* draw runs once a frame, 60 times a second
FrameStep == 17

\* the time between two game ticks of a game: the first frame at least
\* GAME_TICK_MS = 1000 / 15 after the previous tick, or a later one
TickSteps == {67, 100}

RECURSIVE Pow(_, _)
Pow(b, n) == IF n <= 0 THEN 1 ELSE b * Pow(b, n - 1)

\* now - lastDropTime >= DROP_INTERVAL_MS * Math.pow(0.9, level - 1)
DropDue(elapsed, lvl) ==
    elapsed * Pow(10, lvl - 1) >= DROP_INTERVAL_MS * Pow(9, lvl - 1)

\* whether a tick calls the handler of a direction: at once when the hold
\* begins, then after the delay at the repeat rate
CallsNoDelay(pressed, held, pressTime, lastMove, now, arr) ==
    pressed /\ (~held \/ now - lastMove >= arr)

Calls(pressed, held, pressTime, lastMove, now, arr) ==
    pressed /\ (~held \/ (now - pressTime >= DAS_MS /\ now - lastMove >= arr))

\* whether a tick calls rotate or hardDrop: the button is down and was up
EdgeLevel(pressed, prevDown) == pressed

Edge(pressed, prevDown) == pressed /\ ~prevDown

\* the statements of gameTick for one control, on the record of a tick under
\* way: the game g, the input state in, the buttons b it sees, the time now it
\* read, the random value rnd and the handlers invoked so far
LeftPart(st) ==
    LET call == Calls(st.b.left, st.in.leftHeld, st.in.leftPressTime,
                      st.in.lastLeftMove, st.now, ARR_MS)
    IN  [st EXCEPT !.g = IF call THEN moveLeft(@) ELSE @,
                   !.in.leftPressTime =
                       IF st.b.left /\ ~st.in.leftHeld THEN st.now ELSE @,
                   !.in.lastLeftMove = IF call THEN st.now ELSE @,
                   !.in.leftHeld = st.b.left,
                   !.invoked.left = call]

RightPart(st) ==
    LET call == Calls(st.b.right, st.in.rightHeld, st.in.rightPressTime,
                      st.in.lastRightMove, st.now, ARR_MS)
    IN  [st EXCEPT !.g = IF call THEN moveRight(@) ELSE @,
                   !.in.rightPressTime =
                       IF st.b.right /\ ~st.in.rightHeld THEN st.now ELSE @,
                   !.in.lastRightMove = IF call THEN st.now ELSE @,
                   !.in.rightHeld = st.b.right,
                   !.invoked.right = call]

DownPart(st) ==
    LET call == Calls(st.b.down, st.in.downHeld, st.in.downPressTime,
                      st.in.lastDownMove, st.now, SOFT_DROP_ARR_MS)
    IN  [st EXCEPT !.g = IF call THEN softDrop(@, st.rnd) ELSE @,
                   !.in.downPressTime =
                       IF st.b.down /\ ~st.in.downHeld THEN st.now ELSE @,
                   !.in.lastDownMove = IF call THEN st.now ELSE @,
                   !.in.downHeld = st.b.down,
                   !.invoked.down = call]

RotatePart(st) ==
    [st EXCEPT !.g = IF Edge(st.b.up, st.in.prevUp) THEN rotate(@) ELSE @,
               !.in.prevUp = st.b.up,
               !.invoked.rotate = Edge(st.b.up, st.in.prevUp)]

HardDropPart(st) ==
    [st EXCEPT !.g = IF Edge(st.b.a, st.in.prevA) THEN hardDrop(@, st.rnd) ELSE @,
               !.in.prevA = st.b.a,
               !.invoked.hardDrop = Edge(st.b.a, st.in.prevA)]

GravityPart(st) ==
    LET due == DropDue(st.now - st.in.lastDropTime, st.g.level)
    IN  [st EXCEPT !.g = IF due THEN softDrop(@, st.rnd) ELSE @,
                   !.in.lastDropTime = IF due THEN st.now ELSE @,
                   !.invoked.gravity = due]

\* gameTick on game g and input state in, seeing buttons b at time now
gameTick(g, in, b, now, rnd) ==
    GravityPart(HardDropPart(RotatePart(DownPart(RightPart(LeftPart(
        [g |-> g, in |-> in, b |-> b, now |-> now, rnd |-> rnd,
         invoked |-> NoHandlers]))))))

Directions == {"left", "right", "down"}

\* what a tick at time now that saw b and called the handlers of called
\* leaves on record
Observed(tk, b, now, called) ==
    [now |-> now, n |-> tk.n + 1, inGame |-> tk.inGame + 1,
     buttons |-> b, invoked |-> called,
     held |-> [d \in Directions |->
                  IF b[d] /\ ~tk.buttons[d] THEN now ELSE tk.held[d]],
     heldInGame |-> [d \in Directions |->
                        IF b[d] /\ (tk.inGame = 0 \/ ~tk.buttons[d])
                        THEN now ELSE tk.heldInGame[d]],
     last |-> [d \in Directions |-> IF called[d] THEN now ELSE tk.last[d]]]

\* the game, the input state and the record of the ticks, after the tick done
Recorded(tk, done) ==
    [g |-> done.g, in |-> done.in,
     tk |-> Observed(tk, done.b, done.now, done.invoked)]

\* a tick that comes dt after the last frame on record
Tick(st, b, dt, rnd) ==
    Recorded(st.tk, gameTick(st.g, st.in, b, st.tk.now + dt, rnd))

Pressing(name) == [NoButtons EXCEPT ![name] = TRUE]

\* the buttons a tick can see: none, or one of the five
ButtonStates ==
    {NoButtons} \cup { Pressing(name) : name \in {"left", "right", "down", "up", "a"} }

\* draw on the start screen with 1P START pressed, one frame after time 0
StartedState ==
    [g |-> StartedGame,
     in |-> [InputReset EXCEPT !.lastDropTime = FrameStep],
     tk |-> [TickNone EXCEPT !.now = FrameStep]]

\* the ticks of a script of << buttons, dt >>, in order, every piece drawn an O;
\* a game that is over has no ticks
RECURSIVE Ticks(_, _)
Ticks(st, script) ==
    IF Len(script) = 0 THEN st
    ELSE IF Len(script) = 1
         THEN IF st.g.gameOver THEN st
              ELSE Tick(st, script[1][1], script[1][2], 1)
         ELSE LET half == Len(script) \div 2
                  midway == Ticks(st, SubSeq(script, 1, half))
              IN  IF midway.g.gameOver THEN midway
                  ELSE Ticks(midway, SubSeq(script, half + 1, Len(script)))

\* a button held from the first tick of the game over three ticks, the next
\* tick 67 ms later being the first one DAS_MS after the hold began
HeldFor3(name) ==
    << << Pressing(name), FrameStep >>, << Pressing(name), 100 >>,
       << Pressing(name), 100 >> >>

\* eight ticks without a button, the next tick 100 ms later being the first
\* one DROP_INTERVAL_MS after the game started
Idle ==
    << << NoButtons, FrameStep >> >> \o Times(<< << NoButtons, 100 >> >>, 7)

\* A pressed and released six times: six O pieces hard-dropped on top of each
\* other, the seventh in rows 0 and 1
TowerByA ==
    << << Pressing("a"), FrameStep >> >>
    \o Times(<< << NoButtons, 67 >>, << Pressing("a"), 67 >> >>, 5)

\* the record of a position counts the ticks from the position on
TickPositions ==
    { [st EXCEPT !.tk.n = 0] :
        st \in { StartedState, Ticks(StartedState, Idle),
                 Ticks(StartedState, TowerByA) }
               \cup { Ticks(StartedState, HeldFor3(name)) :
                        name \in {"left", "right", "down", "up", "a"} } }

InputInit ==
    /\ InitSirds(1, 1, 82, 520, Zeros(1), 4)
    /\ seed = 0
    /\ sepArg = 0
    /\ sepRes = << 0, 1 >>
    /\ fnArg = 0 /\ fnRes = 0 /\ turns = 0
    /\ moves = 0
    /\ \/ GameReset(1) /\ input = InputReset /\ tick = TickNone
       \/ /\ gameStarted = TRUE
          /\ \E st \in TickPositions :
                /\ grid = st.g.grid /\ currentPiece = st.g.currentPiece
                /\ nextPieceType = st.g.nextPieceType
                /\ level = st.g.level /\ score = st.g.score
                /\ lines = st.g.lines /\ gameOver = st.g.gameOver
                /\ input = st.in
                /\ tick = st.tk

\* the values Math.random() yields in this specification: every piece an O
TickDraws == {1}

\* draw with 1P START pressed on the start screen: the game starts one frame
\* after the last frame on record
StartGame ==
    /\ ~gameStarted
    /\ gameStarted' = TRUE
    /\ \E rnd \in TickDraws : Becomes(spawnPiece(Game, rnd))
    /\ input' = [input EXCEPT !.lastDropTime = tick.now + FrameStep]
    /\ tick' = [tick EXCEPT !.now = tick.now + FrameStep, !.inGame = 0]
    /\ UNCHANGED << sirds, probe, moves >>

\* draw with 1P START pressed after the game is over: resetGame, then the
\* game starts again
RestartGame ==
    /\ gameStarted /\ gameOver
    /\ gameStarted' = TRUE
    /\ \E t \in TickDraws, rnd \in TickDraws :
          Becomes(spawnPiece([grid |-> emptyGrid, currentPiece |-> << >>,
                              nextPieceType |-> t, level |-> 1, score |-> 0,
                              lines |-> 0, gameOver |-> FALSE], rnd))
    /\ input' = [input EXCEPT !.leftHeld = FALSE, !.rightHeld = FALSE,
                              !.downHeld = FALSE, !.prevUp = FALSE,
                              !.prevA = FALSE,
                              !.lastDropTime = tick.now + FrameStep]
    /\ tick' = [tick EXCEPT !.now = tick.now + FrameStep, !.inGame = 0]
    /\ UNCHANGED << sirds, probe, moves >>

\* draw in a started game that is not over, on a frame that runs gameTick;
\* the first tick of a game runs on the frame after the start
GameTick ==
    /\ gameStarted /\ ~gameOver
    /\ tick.n < MaxTicks
    /\ \E b \in ButtonStates, rnd \in TickDraws,
          dt \in (IF tick.inGame = 0 THEN {FrameStep} ELSE TickSteps) :
          \E after \in {Tick([g |-> Game, in |-> input, tk |-> tick], b, dt, rnd)} :
              /\ Becomes(after.g)
              /\ input' = after.in
              /\ tick' = after.tk
    /\ UNCHANGED << sirds, probe, moves, gameStarted >>

InputNext == StartGame \/ RestartGame \/ GameTick

SpecInput == InputInit /\ [][InputNext]_vars

TypeOK ==
    /\ pc \in {"idle", "row", "link", "color", "done", "thrown"}
    /\ x \in 0 .. width /\ y \in 0 .. height
    /\ \A i \in DOMAIN data : data[i] \in 0 .. 255

(***************************************************************************)
(* The stream of a call, computed from the seed alone.                     *)
(***************************************************************************)
RECURSIVE StateAfter(_, _)
StateAfter(s, k) ==
    IF k = 0 THEN ToUint32(s) ELSE Add32(StateAfter(s, k - 1), GOLDEN)

\* the k-th value (k >= 1) of the stream seeded with s, as a byte
NthDraw(s, k) == ScaleToByte(Mix(StateAfter(s, k)))

Rws == 0 .. (height - 1)

Px(r, c) == (r * width + c) * 4

RGB(d, r, c) == << d[Px(r, c)], d[Px(r, c) + 1], d[Px(r, c) + 2] >>

RowBytes(r) == Px(r, 0) .. (Px(r, 0) + 4 * width - 1)

Roots(lk) == { c \in DOMAIN lk : lk[c] = c }

Identity == [c \in Cols(width) |-> c]

\* the depth maps dm1 and dm2 agree outside row r
SameOutsideRow(dm1, dm2, r) ==
    \A i \in DOMAIN dm1 : i \div width # r => dm1[i] = dm2[i]

\* C1: two calls with the same depth map, dimensions, seed and parameters leave
\* byte-identical images, whatever the image held before each call.
C1_Determinism ==
    (pc = "done" /\ prev.valid /\ prev.depth = depth) => data = prev.out

C1_Witness ==
    /\ pc = "done" /\ prev.valid /\ prev.depth = depth
    /\ height >= 2
    /\ \E r \in Rws : Roots(forest[r]) # Cols(width)
    /\ \E i \in DOMAIN data : data[i] \notin {0, OPAQUE}

\* C2 as stated: when two depth maps differ only in row r, the two images are
\* byte-identical in every row other than r.
C2_RowIndependence ==
    (pc = "done" /\ prev.valid) =>
        \A r \in Rws :
            SameOutsideRow(prev.depth, depth, r) =>
                \A r2 \in Rws \ {r} : \A i \in RowBytes(r2) : data[i] = prev.out[i]

\* C2 amended: when two depth maps differ only in row r and row r has the same
\* number of roots in both, the two images are byte-identical in every row
\* other than r.
C2_RowIndependenceSameRoots ==
    (pc = "done" /\ prev.valid) =>
        \A r \in Rws :
            ( /\ SameOutsideRow(prev.depth, depth, r)
              /\ Cardinality(Roots(prev.forest[r])) = Cardinality(Roots(forest[r])) ) =>
                \A r2 \in Rws \ {r} : \A i \in RowBytes(r2) : data[i] = prev.out[i]

C2_Witness ==
    /\ pc = "done" /\ prev.valid
    /\ height >= 2
    /\ RowOf(prev.depth, width, 0) # RowOf(depth, width, 0)
    /\ RowOf(prev.depth, width, 1) = RowOf(depth, width, 1)
    /\ prev.forest[0] # forest[0]
    /\ Cardinality(Roots(prev.forest[0])) = Cardinality(Roots(forest[0]))
    /\ \E i \in RowBytes(0) : data[i] # prev.out[i]
    /\ \A i \in RowBytes(1) : data[i] = prev.out[i]


\* the columns visited from i by following lk, at most n links
RECURSIVE Chain(_, _, _)
Chain(lk, i, n) ==
    IF lk[i] = i \/ n = 0 THEN << i >> ELSE << i >> \o Chain(lk, lk[i], n - 1)

Last(sq) == sq[Len(sq)]

\* C3: in every row, after every step of link construction, link[x] <= x for
\* every column, and following link from any column reaches a root within
\* width steps without visiting a column twice.
C3_ForestInvariant ==
    pc \in {"link", "color"} =>
        \A c \in Cols(width) :
            /\ link[c] \in 0 .. c
            /\ LET ch == Chain(link, c, width)
               IN  /\ link[Last(ch)] = Last(ch)
                   /\ Cardinality({ ch[k] : k \in 1 .. Len(ch) }) = Len(ch)

\* the last link step linked rightX to a root that findRoot reached by a walk
\* from a linked leftX
C3_Witness ==
    /\ pc = "link" /\ x > 0
    /\ LET sep == Separation(DepthAt(depth, width, y, x - 1), eyeSep, obsDist)
           leftX == LeftX(x - 1, sep)
           rightX == RightX(x - 1, sep)
       IN  /\ ~SepBelow2(sep)
           /\ Links(width, leftX, rightX)
           /\ link[leftX] # leftX
           /\ link[rightX] = link[leftX]

\* C4: after the call every pixel has the R, G, B of the root its column
\* resolves to in its row's final forest, and the colour loop copies only
\* from a pixel already written in this call.
C4_PixelEqualsRoot ==
    /\ pc = "done" =>
          \A r \in Rws : \A c \in Cols(width) :
              RGB(data, r, c) = RGB(data, r, FindRoot(forest[r], c))
    /\ (pc = "color" /\ x < width /\ link[x] # x) =>
          (Px(y, link[x]) .. (Px(y, link[x]) + 3)) \subseteq written

C4_Witness ==
    /\ pc = "done"
    /\ \E r \in Rws : \E c1, c2 \in Cols(width) :
          /\ c1 # c2 /\ forest[r][c1] # c1 /\ forest[r][c1] = forest[r][c2]
          /\ RGB(data, r, c1) = RGB(data, r, c2)
          /\ \E c3 \in Cols(width) : RGB(data, r, c3) # RGB(data, r, c1)

\* the number of roots the colour loop has passed before column c of row r
RootsBefore(r, c) ==
    LET n[k \in 0 .. r] ==
            IF k = 0 THEN 0 ELSE n[k - 1] + Cardinality(Roots(forest[k - 1]))
    IN  n[r] + (IF r < height
                THEN Cardinality({ c2 \in Roots(forest[r]) : c2 < c })
                ELSE 0)

\* C5: one stream, seeded once per call: one value is drawn per root and none
\* per linked column, in row-major order, and the k-th root gets the gray
\* value floor(256 * k-th value of the stream of the seed).
C5_OneStream ==
    /\ pc \in {"row", "link"} => drawn = RootsBefore(y, 0)
    /\ pc = "color" => drawn = RootsBefore(y, x)
    /\ pc = "done" => drawn = RootsBefore(height, 0)
    /\ pc # "idle" => state = StateAfter(seed, drawn)
    /\ pc = "done" =>
          \A r \in Rws : \A c \in Roots(forest[r]) :
              RGB(data, r, c) = [k \in 1 .. 3 |-> NthDraw(seed, RootsBefore(r, c) + 1)]

C5_Witness ==
    /\ pc = "done"
    /\ height >= 2
    /\ \A r \in Rws : Roots(forest[r]) # Cols(width) /\ Cardinality(Roots(forest[r])) >= 2

AllBackground == \A i \in DOMAIN depth : depth[i] = BKDEPTH

\* C6: when every depth sample is the background depth, every column of every
\* row is a root, and the i-th pixel in row-major order is the gray
\* floor(256 * i-th value of the seeded stream).
C6_BackgroundFlat ==
    (pc = "done" /\ AllBackground) =>
        /\ \A r \in Rws : forest[r] = Identity
        /\ \A r \in Rws : \A c \in Cols(width) :
              RGB(data, r, c) = [k \in 1 .. 3 |-> NthDraw(seed, r * width + c + 1)]

C6_Witness ==
    /\ pc = "done" /\ AllBackground
    /\ height >= 2 /\ width >= 3
    /\ drawn = width * height

\* C7: after the call every byte of the image has been stored to in this
\* call, every alpha is 255 and every pixel has R = G = B.
C7_FullyOverwritten ==
    pc = "done" =>
        /\ written = DOMAIN data
        /\ \A r \in Rws : \A c \in Cols(width) :
              /\ data[Px(r, c) + 3] = OPAQUE
              /\ data[Px(r, c)] = data[Px(r, c) + 1]
              /\ data[Px(r, c)] = data[Px(r, c) + 2]

\* a second call has overwritten an image that held another call's output
C7_Witness ==
    /\ pc = "done" /\ prev.valid
    /\ prev.out # data
    /\ \E r \in Rws : Roots(forest[r]) # Cols(width)

Scenario(w, lo, hi) ==
    /\ width = w /\ height = 1 /\ eyeSep = 80 /\ obsDist = 400
    /\ depth = MapOf(w, 1, [r \in {0} |-> Patch(w, lo, hi)])

Gray(v) == [k \in 1 .. 3 |-> v]

\* C8: width 40, one row, eyeSeparation 80, observerDistance 400, depth 255 at
\* columns 18..22: every computed leftX and rightX is in bounds, columns
\* 33..37 are linked to columns 2..6 and take their colours, and every other
\* column is a root with its own value of the stream.
C8_Scenario40 ==
    Scenario(40, 18, 22) =>
        /\ (pc = "link" /\ x < width) =>
              LET sep == Separation(DepthAt(depth, width, y, x), eyeSep, obsDist)
              IN  ~SepBelow2(sep) => (LeftX(x, sep) >= 0 /\ RightX(x, sep) < width)
        /\ pc \in {"color", "done"} =>
              forest[0] = [c \in Cols(40) |-> IF c \in 33 .. 37 THEN c - 31 ELSE c]
        /\ pc = "done" =>
              /\ \A c \in 33 .. 37 : RGB(data, 0, c) = RGB(data, 0, c - 31)
              /\ \A c \in 0 .. 32 : RGB(data, 0, c) = Gray(NthDraw(seed, c + 1))
              /\ \A c \in 38 .. 39 : RGB(data, 0, c) = Gray(NthDraw(seed, c - 4))

C8_Witness ==
    /\ Scenario(40, 18, 22) /\ pc = "done"
    /\ drawn = 35
    /\ \A c \in 33 .. 37 : forest[0][c] = c - 31

\* column c of row r is one the link loop skips
SkipsAt(r, c) ==
    LET sep == Separation(DepthAt(depth, width, r, c), eyeSep, obsDist)
    IN  SepBelow2(sep) \/ LeftX(c, sep) < 0 \/ RightX(c, sep) >= width

RatLess(a, b) == a[1] * b[2] < b[1] * a[2]

\* C10: for fixed eyeSeparation > 0 and observerDistance > 0, separation is
\* strictly increasing on the positive depths: 0 < d1 < d2 <= 255 implies
\* separation(d1) < separation(d2).
C10_Monotonic ==
    [][ (0 < sepArg /\ sepArg < sepArg') => RatLess(sepRes, sepRes') ]_vars

C10_Witness ==
    /\ sepArg = 255
    /\ sepRes = << 255 * eyeSep, 255 + obsDist >>
    /\ eyeSep = 82 /\ obsDist = 520
    /\ RatLess(Separation(254, eyeSep, obsDist), sepRes)

\* C11: for eyeSeparation > 0 and observerDistance > 0, separation(ht) is
\* exactly 0 whenever ht - BKDEPTH <= 0, and for every depth with
\* ht - BKDEPTH > 0 it satisfies 0 < separation(ht) < eyeSeparation.
C11_BoundedSeparation ==
    (eyeSep > 0 /\ obsDist > 0) =>
        /\ (sepArg - BKDEPTH <= 0 => sepRes[1] = 0)
        /\ (sepArg - BKDEPTH > 0 =>
                /\ sepRes[2] > 0
                /\ 0 < sepRes[1]
                /\ sepRes[1] < eyeSep * sepRes[2])

\* the nearest depth under the widest eye separation and the shortest distance
C11_Witness ==
    /\ eyeSep = 150 /\ obsDist = 200
    /\ sepArg = NEAR
    /\ sepRes = Separation(NEAR, eyeSep, obsDist)
    /\ 84 * sepRes[2] < sepRes[1]

\* the separation, leftX and rightX of the link step at column c of row r
SepAt(r, c) == Separation(DepthAt(depth, width, r, c), eyeSep, obsDist)

\* the link step at column c of row r creates a link
LinksAt(r, c) ==
    /\ ~SepBelow2(SepAt(r, c))
    /\ Links(width, LeftX(c, SepAt(r, c)), RightX(c, SepAt(r, c)))

\* every link of lk points directly at a root
Flat(lk) == \A c \in DOMAIN lk : lk[lk[c]] = lk[c]

\* C17: a link step at column x leaves the link entries at indices <= x
\* unchanged (it writes only rightX > x and reads only indices <= leftX < x);
\* hence at every moment, and in every row's final forest, every link points
\* directly at a root, and the walk of findRoot from leftX is at most one hop.
C17_ScannedPrefixStable ==
    /\ [][ (pc = "link" /\ x < width) =>
              /\ \A i \in 0 .. x : link'[i] = link[i]
              /\ LinksAt(y, x) =>
                    /\ LeftX(x, SepAt(y, x)) < x
                    /\ x < RightX(x, SepAt(y, x))
                    /\ Len(Chain(link, LeftX(x, SepAt(y, x)), width)) <= 2 ]_vars
    /\ [][ pc = "color" => link' = link ]_vars
    /\ [](pc \in {"link", "color"} => Flat(link))
    /\ [](pc = "done" => \A r \in Rws : Flat(forest[r]))

\* a finished call one of whose rows linked column 4 to column 0 by a walk of
\* one hop from column 2
C17_Witness ==
    /\ pc = "done" /\ width >= 5
    /\ \E r \in Rws :
          /\ forest[r][2] = 0 /\ forest[r][4] = 0
          /\ LinksAt(r, 3)
          /\ LeftX(3, SepAt(r, 3)) = 2

\* C18: a link step changes at most one link entry, link[rightX]; every other
\* entry, link[leftX] included, is unchanged, and the value written is a root
\* of the buffer at that moment, the root of leftX's chain, never leftX itself
\* when leftX is linked.
C18_AsymmetricLink ==
    [][ (pc = "link" /\ x < width) =>
           LET leftX == LeftX(x, SepAt(y, x))
               rightX == RightX(x, SepAt(y, x))
           IN  /\ \A i \in Cols(width) :
                     link'[i] # link[i] => (LinksAt(y, x) /\ i = rightX)
               /\ LinksAt(y, x) =>
                     /\ link'[leftX] = link[leftX]
                     /\ link[link'[rightX]] = link'[rightX]
                     /\ link'[rightX] = Last(Chain(link, leftX, width))
                     /\ (link[leftX] # leftX => link'[rightX] # leftX) ]_vars

\* the step at column 3 has just linked column 4 to column 0, the root of its
\* linked leftX = 2
C18_Witness ==
    /\ pc = "link" /\ x = 4
    /\ LinksAt(y, 3)
    /\ LeftX(3, SepAt(y, 3)) = 2 /\ RightX(3, SepAt(y, 3)) = 4
    /\ link[2] = 0 /\ link[4] = 0

\* the images of this call and of the call before it agree on row r2
SameRow(r2) == \A i \in RowBytes(r2) : data[i] = prev.out[i]

\* C19: for two depth maps that differ only in row r (same seed and
\* parameters), output rows 0..r-1 are byte-identical; and if the two versions
\* of row r have the same number of roots, rows r+1..height-1 are
\* byte-identical as well.
C19_RowsBeforeAndAfter ==
    (pc = "done" /\ prev.valid) =>
        \A r \in Rws :
            SameOutsideRow(prev.depth, depth, r) =>
                /\ \A r2 \in 0 .. (r - 1) : SameRow(r2)
                /\ Cardinality(Roots(prev.forest[r])) = Cardinality(Roots(forest[r])) =>
                      \A r2 \in (r + 1) .. (height - 1) : SameRow(r2)

\* two calls whose depth maps differ in the last row only, with different
\* numbers of roots there: the row before it, which has links, is the same
C19_Witness ==
    /\ pc = "done" /\ prev.valid
    /\ height >= 2
    /\ RowOf(prev.depth, width, 0) = RowOf(depth, width, 0)
    /\ RowOf(prev.depth, width, 1) # RowOf(depth, width, 1)
    /\ Cardinality(Roots(prev.forest[1])) # Cardinality(Roots(forest[1]))
    /\ Roots(forest[0]) # Cols(width)
    /\ SameRow(0)
    /\ ~SameRow(1)

(***************************************************************************)
(* The variant with path compression: the walk of find re-points every     *)
(* column it visits at the root it finds.  It is not the code's findRoot;  *)
(* the code's output is compared with it.                                  *)
(***************************************************************************)
RECURSIVE Compress(_, _, _)
Compress(lk, i, root) ==
    IF lk[i] = i THEN lk ELSE Compress([lk EXCEPT ![i] = root], lk[i], root)

LinkColumnCompressed(lk, w, col, ht, e, o) ==
    LET sep == Separation(ht, e, o)
        leftX == LeftX(col, sep)
        rightX == RightX(col, sep)
    IN  IF SepBelow2(sep) THEN lk
        ELSE IF Links(w, leftX, rightX)
             THEN [Compress(lk, leftX, FindRoot(lk, leftX)) EXCEPT
                      ![rightX] = FindRoot(lk, leftX)]
             ELSE lk

\* the link buffer of row r under compression, from lk at column n onwards
RECURSIVE CompressedForest(_, _, _)
CompressedForest(lk, r, n) ==
    IF n >= width THEN lk
    ELSE CompressedForest(
             LinkColumnCompressed(lk, width, n, DepthAt(depth, width, r, n),
                                  eyeSep, obsDist),
             r, n + 1)

\* the image under compression, from image d and stream state st at pixel k
RECURSIVE CompressedImage(_, _, _)
CompressedImage(d, st, k) ==
    IF k >= width * height THEN d
    ELSE LET after == ColorColumn(d, st, CompressedForest(Identity, k \div width, 0),
                                  width, k \div width, k % width)
         IN  CompressedImage(after.data, after.state, k + 1)

\* C16: with path compression applied during the root walk (every column
\* visited by find re-pointed at the root found), every row has the same set
\* of roots and the call leaves the same image as with the findRoot of
\* depthToSirds.
C16_CompressionEquivalent ==
    pc = "done" =>
        /\ \A r \in Rws :
              Roots(CompressedForest(Identity, r, 0)) = Roots(forest[r])
        /\ CompressedImage(prev.out, ToUint32(seed), 0) = data

\* a finished call in which a walk of find started at a linked column
C16_Witness ==
    /\ pc = "done" /\ width >= 5
    /\ \E r \in Rws :
          /\ LinksAt(r, 1) /\ LinksAt(r, 3)
          /\ RightX(1, SepAt(r, 1)) = LeftX(3, SepAt(r, 3))
          /\ forest[r][RightX(3, SepAt(r, 3))] = forest[r][LeftX(3, SepAt(r, 3))]
          /\ forest[r][LeftX(3, SepAt(r, 3))] # LeftX(3, SepAt(r, 3))
    /\ \E i \in DOMAIN data : data[i] \notin {0, OPAQUE}

C13_BufferSizeMismatchRejected ==
    ( \/ Cardinality(DOMAIN depth) # width * height
      \/ Cardinality(DOMAIN data) # width * height * 4 ) => pc # "done"

\* C14: a call with width <= 0 or height <= 0 fails with an InvalidDimension
\* error surfaced to the caller: it never returns normally.
C14_InvalidDimensionRejected ==
    (width <= 0 \/ height <= 0) => pc # "done"

\* a game that has just been started or restarted: the grid is empty and no
\* handler has run since the spawn
JustStarted == gameStarted /\ moves = 0 /\ grid = emptyGrid

\* C15: when a game starts on an empty grid, spawnPiece makes the next piece
\* the current piece with all four cells inside the board and its top cell at
\* row 0, and leaves gameOver false, for every piece type 0..6.
C15_SpawnOnEmptyGrid ==
    JustStarted =>
        /\ ~gameOver
        /\ currentPiece # << >>
        /\ \A k \in 1 .. 4 : OnBoard(pieceCells(currentPiece[1])[k])
        /\ \E k \in 1 .. 4 : pieceCells(currentPiece[1])[k][1] = 0

\* the current piece moved by dx columns, and rotated
Shifted(dx) == [currentPiece[1] EXCEPT !.x = @ + dx]

Rotated == rotatePiece(currentPiece[1])

C29_LinkResetPerRow ==
    /\ (pc = "link" /\ x = 0) => link = Identity
    /\ pc = "done" =>
          /\ \A r1, r2 \in Rws :
                RowOf(depth, width, r1) = RowOf(depth, width, r2) =>
                    forest[r1] = forest[r2]
          /\ prev.valid =>
                \A r1, r2 \in Rws :
                    RowOf(prev.depth, width, r1) = RowOf(depth, width, r2) =>
                        prev.forest[r1] = forest[r2]

\* link construction of a row starts from the identity although the row
\* before it has links
C29_Witness ==
    /\ pc = "link" /\ x = 0 /\ y >= 1
    /\ forest[y - 1] # Identity
    /\ link = Identity
    /\ RowOf(depth, width, y - 1) # RowOf(depth, width, y)

\* C23: rotatePiece returns an O piece unchanged, toggles an I piece's
\* rotation between 0 and 1, and advances the rotation of T, S, Z, J, L modulo
\* 4; it never changes type, x or y, so 1, 2 and 4 successive rotations
\* respectively return the original piece, and rotation stays in 0..3.
C23_RotationCycles ==
    /\ [][ CASE fnRes.type = 1 -> fnRes' = fnRes
             [] fnRes.type = 0 ->
                    /\ fnRes.rotation \in {0, 1}
                    /\ fnRes' = [fnRes EXCEPT !.rotation = 1 - fnRes.rotation]
             [] OTHER ->
                    fnRes' = [fnRes EXCEPT !.rotation = (fnRes.rotation + 1) % 4] ]_vars
    /\ [](/\ fnRes.type = fnArg.type /\ fnRes.x = fnArg.x /\ fnRes.y = fnArg.y
          /\ fnRes.rotation \in 0 .. 3
          /\ (fnArg.type = 1 => fnRes = fnArg)
          /\ (fnArg.type = 0 /\ turns % 2 = 0 => fnRes = fnArg)
          /\ (turns = 0 => fnRes = fnArg)
          /\ (fnArg.type \notin {0, 1} /\ turns # 0 => fnRes # fnArg))

\* a T piece created two turns ago is three further turns on, past the wrap
C23_Witness ==
    /\ fnArg.type = 2 /\ fnArg.rotation = 2
    /\ turns = 3
    /\ fnRes.rotation = 1

\* the rows of g that are not completely filled, from row r downwards, in order
RECURSIVE KeptRows(_, _)
KeptRows(g, r) ==
    IF r >= ROWS THEN << >>
    ELSE (IF \A c \in 0 .. (COLS - 1) : g[r][c] # 0 THEN << >> ELSE << g[r] >>)
         \o KeptRows(g, r + 1)

FilledCount(g) ==
    Cardinality({ r \in 0 .. (ROWS - 1) : \A c \in 0 .. (COLS - 1) : g[r][c] # 0 })

\* C21: clearLines returns the number of completely filled rows; afterwards
\* the grid still has ROWS rows of COLS cells, has no completely filled row,
\* has that many all-zero rows at the top, and below them the rows that were
\* not full, in their original order and content.
C21_ClearLines ==
    turns = 1 =>
        LET n == FilledCount(fnArg)
            kept == KeptRows(fnArg, 0)
        IN  /\ fnRes.cleared = n
            /\ DOMAIN fnRes.grid = 0 .. (ROWS - 1)
            /\ \A r \in 0 .. (ROWS - 1) : DOMAIN fnRes.grid[r] = 0 .. (COLS - 1)
            /\ FilledCount(fnRes.grid) = 0
            /\ \A r \in 0 .. (n - 1) : \A c \in 0 .. (COLS - 1) : fnRes.grid[r][c] = 0
            /\ Len(kept) = ROWS - n
            /\ \A k \in 1 .. Len(kept) : fnRes.grid[n + k - 1] = kept[k]

\* a grid with two adjacent full rows at the bottom and one at the top, with
\* partly filled rows between them, after the call
C21_Witness ==
    /\ turns = 1
    /\ fnArg[13] = FilledRow(1) /\ fnArg[12] = FilledRow(2) /\ fnArg[1] = FilledRow(1)
    /\ fnArg[0] = MarkedRow(0) /\ fnArg[11] = MarkedRow(11) /\ fnArg[2] = EmptyRow
    /\ fnRes.cleared = 3
    /\ fnRes.grid[3] = MarkedRow(0)
    /\ fnRes.grid[13] = MarkedRow(11)

\* a step in which a handler locks the current piece
LockStep == gameStarted /\ ~gameOver /\ currentPiece # << >> /\ grid' # grid

\* the game when the piece has come to rest, before lockPiece
Landed == DropToFloor(Game)

\* the rows that are full once the piece at rest is part of the grid
RowsCompleted ==
    FilledCount(mergePiece(grid, Landed.currentPiece[1], currentPiece[1].type + 1))

\* C22: when lockPiece clears n >= 1 lines at level L, score increases by
\* n * 100 * L, with L the level before the update, and lines by n; a lock
\* that clears no line changes none of score, lines and level; and in every
\* reachable state level = 1 + floor(lines / 10).
C22_LockScoring ==
    /\ [][ LockStep =>
              /\ lines' = lines + RowsCompleted
              /\ score' = Landed.score + RowsCompleted * 100 * level
              /\ RowsCompleted = 0 => (level' = level /\ lines' = lines) ]_vars
    /\ [](level = 1 + lines \div LINES_PER_LEVEL)

\* the fifth double clear of a game has just taken it from level 1 to level 2
\* and scored at level 1; the piece was hard dropped over the last two rows
C22_Witness ==
    /\ gameStarted /\ moves = 1
    /\ lines = 10 /\ level = 2
    /\ grid = emptyGrid
    /\ score = Replay(StartedGame, Times(DoubleClear, 4) \o FourSquares
                                      \o OverTheGap).score + 4 + 200

\* the board cells a piece occupies
CellSet(p) == { pieceCells(p)[k] : k \in 1 .. 4 }

\* a step in which rotate is accepted: the piece stays and its rotation changes
AcceptedRotate ==
    /\ gameStarted /\ ~gameOver
    /\ currentPiece # << >> /\ currentPiece' # << >>
    /\ grid' = grid
    /\ currentPiece'[1].rotation # currentPiece[1].rotation

\* C24: for every piece other than O, each accepted rotate changes the set of
\* board cells the piece occupies.  Fails: S and Z go through four rotation
\* values, of which 1, 2 and 3 have the same shape.
C24_RotateChangesCells ==
    [][ (AcceptedRotate /\ currentPiece[1].type # 1)
           => CellSet(currentPiece'[1]) # CellSet(currentPiece[1]) ]_vars

\* C28: after any sequence of player-2 inputs eyeSep stays within [30, 150] and
\* obsDist within [200, 800], so every depthToSirds call receives a strictly
\* positive eyeSeparation and observerDistance.
C28_TuningBounded ==
    /\ eyeSep \in 30 .. 150
    /\ obsDist \in 200 .. 800
    /\ pc \notin {"idle", "done"} => (eyeSep > 0 /\ obsDist > 0)

\* a call is running with both parameters tuned to the lower limit
C28_Witness == pc = "color" /\ eyeSep = 30 /\ obsDist = 200

\* a step that is a game tick
TickHappens == tick'.n = tick.n + 1

\* the delay between two calls of the handler of a held direction
Arr(d) == IF d = "down" THEN SOFT_DROP_ARR_MS ELSE ARR_MS

\* the tick before this one saw the direction or button held
SeenHeld(d) == tick.buttons[d]

\* the tick before this one was a tick of the same game and saw it held
SeenHeldInGame(d) == tick.inGame > 0 /\ tick.buttons[d]

\* C25: score changes only through line clears and player-initiated drops: a
\* gravity step that moves the piece down one row with no line clear leaves
\* score unchanged.  Fails: the gravity step is a call of softDrop, which adds 1.
C25_GravityScoresNothing ==
    [][ ( /\ TickHappens
          /\ tick'.invoked = [NoHandlers EXCEPT !.gravity = TRUE]
          /\ currentPiece # << >>
          /\ currentPiece' = << [currentPiece[1] EXCEPT !.y = @ + 1] >>
          /\ grid' = grid /\ lines' = lines )
           => score' = score ]_vars

\* C26 as stated: while a direction is held over consecutive game ticks, its
\* move is invoked on the first tick that sees it held, then not again before a
\* tick at least DAS_MS after that first tick, and thereafter only at ticks at
\* least ARR_MS (50 ms for down) after the previous invocation; releasing the
\* direction re-arms the immediate move.  Fails for a hold that goes on over
\* the end of a game and the start of the next.
C26_HeldRepeat ==
    [][ TickHappens =>
          \A d \in Directions :
             /\ ~tick'.buttons[d] => ~tick'.invoked[d]
             /\ (tick'.buttons[d] /\ ~SeenHeld(d)) => tick'.invoked[d]
             /\ (tick'.buttons[d] /\ SeenHeld(d) /\ tick'.invoked[d])
                   => /\ tick'.now - tick.held[d] >= DAS_MS
                      /\ tick'.now - tick.last[d] >= Arr(d) ]_vars

\* C26 amended: while a direction is held over consecutive game ticks of one
\* game, its move is invoked on the first tick of the game that sees it held,
\* then not again before a tick at least DAS_MS after that first tick, and
\* thereafter only at ticks at least ARR_MS (50 ms for down) after the previous
\* invocation; releasing the direction, or a restart of the game, re-arms the
\* immediate move.
C26_HeldRepeatInGame ==
    [][ TickHappens =>
          \A d \in Directions :
             /\ ~tick'.buttons[d] => ~tick'.invoked[d]
             /\ (tick'.buttons[d] /\ ~SeenHeldInGame(d)) => tick'.invoked[d]
             /\ (tick'.buttons[d] /\ SeenHeldInGame(d) /\ tick'.invoked[d])
                   => /\ tick'.now - tick.heldInGame[d] >= DAS_MS
                      /\ tick'.now - tick.last[d] >= Arr(d) ]_vars

\* left has been held for DAS_MS and ARR_MS or more in one game and this tick
\* repeats the move, less than DAS_MS after the repeat before
C26_Witness ==
    /\ tick.n >= 1
    /\ tick.buttons.left /\ tick.invoked.left
    /\ tick.now - tick.heldInGame.left >= DAS_MS + ARR_MS
    /\ tick.now - tick.heldInGame.left < 2 * DAS_MS

\* C27: rotate and hard drop are edge-triggered: during one continuous hold of
\* UP (resp. A) across game ticks of a game, rotate (resp. hardDrop) is invoked
\* at most once, on the first tick that sees the button down after a tick that
\* saw it up (or, the button being down as the game starts, on its first tick).
C27_EdgeTriggered ==
    [][ TickHappens =>
          /\ tick'.invoked.rotate <=> (tick'.buttons.up /\ ~SeenHeldInGame("up"))
          /\ tick'.invoked.hardDrop <=> (tick'.buttons.a /\ ~SeenHeldInGame("a")) ]_vars

\* UP has been down over three ticks or more of a game and the last did not
\* rotate
C27_Witness ==
    /\ tick.n >= 1
    /\ tick.buttons.up /\ ~tick.invoked.rotate
    /\ tick.inGame >= 3 /\ input.prevUp
    /\ currentPiece # << >>
=============================================================================
